---- MODULE Spec2Model ----
(***************************************************************************)
(* State-machine model of the liquidity-baking tracker                     *)
(* (src/scripts/track-lb.ts): the start-up code that migrates the legacy   *)
(* log and loads the watermark, the WebSocket handlers onopen, onclose and *)
(* onmessage, and the dashboard renderer.                                  *)
(*                                                                         *)
(* JavaScript values are modelled as tagged records (field t is the type). *)
(* An optional value is a sequence of length 0 (absent / undefined) or 1.  *)
(* File contents are texts: a text parses to a value or fails to parse, so *)
(* JSON.parse and JSON.stringify are modelled by what they do.             *)
(***************************************************************************)
EXTENDS Integers, Sequences, FiniteSets, TLC

VARIABLES
    phase,            \* "off" (process not running), "connecting", "open", "closed"
    mode,             \* DISPLAY_MODE
    legacyFile,       \* LEGACY_LOG_FILE (off_votes.json): [exists, content]
    logFile,          \* LOG_FILE (off_votes.jsonl): [exists, content]
    lastLoggedLevel,  \* the watermark
    isConnected,
    latestBlock,      \* Null or a snapshot
    blockHistory,     \* sequence of snapshots, oldest first
    sent,             \* outbound frames given to socket.send, in order
    nMsgs,            \* history variable: chunks handled by onmessage in this run
    tracked,          \* history variable: snapshots pushed to blockHistory in this run
    ev,               \* history variable: what the last step did
    inOrder,          \* history variable: the OFF levels, those of the legacy log
                      \* first, have arrived in non-decreasing order so far
    offSeen,          \* history variable: while inOrder, the OFF levels processed
                      \* so far over all runs
    ioFailed          \* history variable: while inOrder, some append hit an I/O error

vars == <<phase, mode, legacyFile, logFile, lastLoggedLevel, isConnected,
          latestBlock, blockHistory, sent, nMsgs, tracked, ev, offSeen,
          inOrder, ioFailed>>

(***************************************************************************)
(* Program constants                                                       *)
(***************************************************************************)
THRESHOLD == 1000000000
MAX_EMA == 2000000000
HISTORY_LIMIT == 10
InitialWatermark == -1
PingType == 6
InvocationType == 1
HandshakeVersion == 1

DisplayModes == {"ALL", "ON_OFF", "OFF_ONLY"}
TERMINATOR == "\\x1e"

(***************************************************************************)
(* Bounds of the model                                                     *)
(***************************************************************************)
MaxLevel == 2        \* block levels are 1..MaxLevel
MaxLegacy == 2       \* a legacy array holds at most MaxLegacy entries
MaxRunMsgs == 2      \* chunks handled per process run (Spec)
MaxBlocks == 12      \* blocks fed in one run (SpecHist)
MaxFrames == 2       \* frames per inbound chunk (SpecSession)
MaxData == 2         \* blocks in the data of one envelope (SpecEnvelope)
MantissaBits == 12   \* significant bits of a floating-point number (53 in the code)
MaxEmaSteps == 200   \* EMA values are 0..MaxEmaSteps hundredths of THRESHOLD (SpecEma)

Levels == 1..MaxLevel

(***************************************************************************)
(* JavaScript values                                                       *)
(***************************************************************************)
None == <<>>
Some(x) == <<x>>
IsSome(o) == Len(o) = 1
Get(o) == o[1]

Null == [t |-> "null"]
JNum(n) == [t |-> "number", n |-> n]
JStr(s) == [t |-> "string", s |-> s]
JBool(b) == [t |-> "boolean", b |-> b]
JArr(items) == [t |-> "array", items |-> items]

\* A JavaScript value tested as a condition (if (x), x || y).
Truthy(v) ==
    CASE v.t = "null" -> FALSE
      [] v.t = "number" -> v.n # 0
      [] v.t = "string" -> v.s # ""
      [] v.t = "boolean" -> v.b
      [] OTHER -> TRUE

\* An optional field tested as a condition: undefined is falsy.
TruthyOpt(o) == IsSome(o) /\ Truthy(Get(o))

\* a > b on optional numbers: a comparison with undefined is false.
GreaterThan(a, b) == IsSome(a) /\ IsSome(b) /\ Get(a) > Get(b)

\* String.prototype.toUpperCase on the strings the model uses.
ToUpperCase(s) ==
    CASE s \in {"on", "On", "ON"} -> "ON"
      [] s \in {"off", "Off", "OFF"} -> "OFF"
      [] s \in {"pass", "Pass", "PASS"} -> "PASS"
      [] s = "maybe" -> "MAYBE"
      [] OTHER -> s

(***************************************************************************)
(* Floating-point numbers.  A JavaScript number is a binary floating-point *)
(* value; every operation gives the exact result rounded to the nearest    *)
(* representable value, ties to even.  A value is m * 2^x with m = 0 or    *)
(* 2^(MantissaBits-1) <= m < 2^MantissaBits.                               *)
(***************************************************************************)
RECURSIVE PowerOfTwo(_)
PowerOfTwo(n) == IF n = 0 THEN 1 ELSE 2 * PowerOfTwo(n - 1)

\* 2^n for 0 <= n <= 30, computed once.
Powers == [n \in 0..30 |-> PowerOfTwo(n)]
Pow2(n) == Powers[n]

FZero == [m |-> 0, x |-> 0]

\* The mantissa m of a value other than 0 has MantissaMin <= m < MantissaLimit.
MantissaMin == Pow2(MantissaBits - 1)
MantissaLimit == Pow2(MantissaBits)

\* The quotient so far is q with remainder r (n * 2^k = q * d + r): one more
\* bit until q has MantissaBits bits, then rounding on the remainder.
RECURSIVE DivBits(_, _, _, _)
DivBits(q, r, d, k) ==
    IF q >= MantissaMin
    THEN LET up == r > d - r \/ (r = d - r /\ q % 2 = 1)
             m == IF up THEN q + 1 ELSE q
         IN  IF m = MantissaLimit
             THEN [m |-> MantissaMin, x |-> 1 - k]
             ELSE [m |-> m, x |-> 0 - k]
    ELSE IF r >= d - r
         THEN DivBits(2 * q + 1, r - (d - r), d, k + 1)
         ELSE DivBits(2 * q, r + r, d, k + 1)

\* n / d for integers n >= 0 and d > 0 (both exact as numbers), n / d < 2.
FDiv(n, d) == IF n = 0 THEN FZero ELSE DivBits(n \div d, n % d, d, 0)

\* The least s with M / 2^s < 2^MantissaBits.
RECURSIVE ExcessBits(_)
ExcessBits(M) == IF M < MantissaLimit THEN 0 ELSE 1 + ExcessBits(M \div 2)

\* f * c for a number f and a small integer c.
FMul(f, c) ==
    LET M == f.m * c
        s == ExcessBits(M)
        q == M \div Pow2(s)
        rem == M % Pow2(s)
        up == s > 0 /\ (2 * rem > Pow2(s) \/ (2 * rem = Pow2(s) /\ q % 2 = 1))
        m == IF up THEN q + 1 ELSE q
    IN  IF M = 0 THEN FZero
        ELSE IF m = MantissaLimit
        THEN [m |-> MantissaMin, x |-> f.x + s + 1]
        ELSE [m |-> m, x |-> f.x + s]

\* The integer part of f >= 0, and whether f has a fractional part.
FFloor(f) ==
    IF f.x >= 0 THEN f.m * Pow2(f.x)
    ELSE IF 0 - f.x >= 30 THEN 0
    ELSE f.m \div Pow2(0 - f.x)
FHasFraction(f) ==
    /\ f.x < 0
    /\ f.m # 0
    /\ (0 - f.x >= 30 \/ f.m % Pow2(0 - f.x) # 0)

\* f >= c and f > c for an integer c.
FGe(f, c) == FFloor(f) >= c
FGt(f, c) == FFloor(f) > c \/ (FFloor(f) = c /\ FHasFraction(f))

(***************************************************************************)
(* Log entries and file texts                                              *)
(***************************************************************************)
\* The object literal of the append: {level, vote, baker, ema, timestamp}.
\* The wall-clock timestamp is one abstract value.
Entry(level, vote, baker, ema) ==
    [t |-> "entry", level |-> level, vote |-> vote, baker |-> baker,
     ema |-> ema, timestamp |-> "now"]

\* obj.level of a parsed value: undefined unless the value is an object with
\* that field; reading a property of null throws.
LevelOf(v) == IF v.t = "entry" THEN v.level ELSE None

\* Texts.  Compact(v) is JSON.stringify(v): one line.  Pretty(v) is
\* JSON.stringify(v, null, 2): several lines.  Junk is a text that is not JSON,
\* Blank is empty or white space.  NL is the newline character.
Compact(v) == [fmt |-> "compact", v |-> v]
Pretty(v) == [fmt |-> "pretty", v |-> v]
Junk == [fmt |-> "junk", v |-> Null]
Blank == [fmt |-> "blank", v |-> Null]
NL == [fmt |-> "nl", v |-> Null]

\* A result of JSON.parse: ok is FALSE when it throws.
Thrown == [ok |-> FALSE, v |-> Null]
Parsed(v) == [ok |-> TRUE, v |-> v]

\* JSON.parse of a whole text held as one token.
ParseText(txt) ==
    IF txt.fmt \in {"compact", "pretty"} THEN Parsed(txt.v) ELSE Thrown

\* JSON.parse of one line of the newline-delimited log: a sequence of tokens
\* without NL.  Only a line made of exactly one JSON text parses.
ParseLine(line) ==
    IF Len(line) = 1 THEN ParseText(line[1]) ELSE Thrown

\* JSON.stringify(x) + "\n"
Line(v) == <<Compact(v), NL>>

(***************************************************************************)
(* Files.  A file is [exists, content]; content is a sequence of tokens.   *)
(***************************************************************************)
NoFile == [exists |-> FALSE, content |-> <<>>]
File(content) == [exists |-> TRUE, content |-> content]

IsSpace(tok) == tok.fmt \in {"nl", "blank"}

\* String.prototype.trim: white space dropped at both ends.
RECURSIVE TrimLeft(_)
TrimLeft(s) ==
    IF s # <<>> /\ IsSpace(Head(s)) THEN TrimLeft(Tail(s)) ELSE s

RECURSIVE TrimRight(_)
TrimRight(s) ==
    IF s # <<>> /\ IsSpace(s[Len(s)])
    THEN TrimRight(SubSeq(s, 1, Len(s) - 1))
    ELSE s

Trim(s) == TrimRight(TrimLeft(s))

\* String.prototype.split(sep): the pieces between separators; always at
\* least one piece (the empty text splits into one empty piece).
RECURSIVE SplitFrom(_, _, _)
SplitFrom(s, sep, cur) ==
    IF s = <<>> THEN <<cur>>
    ELSE IF Head(s) = sep THEN <<cur>> \o SplitFrom(Tail(s), sep, <<>>)
    ELSE SplitFrom(Tail(s), sep, Append(cur, Head(s)))

Split(s, sep) == SplitFrom(s, sep, <<>>)

\* Array.prototype.join(sep) of an array of one-token texts.
RECURSIVE Join(_, _)
Join(texts, sep) ==
    IF texts = <<>> THEN <<>>
    ELSE IF Len(texts) = 1 THEN <<texts[1]>>
    ELSE <<texts[1], sep>> \o Join(Tail(texts), sep)

\* JSON.parse(content) of a whole file: white space around the document is
\* allowed, anything else than one document is a syntax error.
ParseContent(content) == ParseLine(Trim(content))

\* json.map(entry => JSON.stringify(entry)).join('\n') + '\n'
ToJsonl(items) ==
    Join([i \in 1..Len(items) |-> Compact(items[i])], NL) \o <<NL>>

\* The lines of the log as the start-up code sees them.
LinesOf(content) == Split(Trim(content), NL)

\* The values of the lines of a log that parse: the log's entries.
RECURSIVE EntriesOfLines(_)
EntriesOfLines(lines) ==
    IF lines = <<>> THEN <<>>
    ELSE LET r == ParseLine(Head(lines))
         IN  (IF r.ok THEN <<r.v>> ELSE <<>>) \o EntriesOfLines(Tail(lines))

EntriesOf(file) == IF file.exists THEN EntriesOfLines(LinesOf(file.content)) ELSE <<>>

(***************************************************************************)
(* Start-up: legacy migration and watermark load (lines 23-57)             *)
(***************************************************************************)
\* Mutant of MigratedLog: migrates also when LOG_FILE exists.
MigratedLog_Always(legacy, log) ==
    IF legacy.exists /\ Trim(legacy.content) # <<>>
    THEN LET r == ParseContent(legacy.content)
         IN  IF r.ok /\ r.v.t = "array" THEN File(ToJsonl(r.v.items)) ELSE log
    ELSE log

\* Lines 26-38: the content of LOG_FILE after the migration step.
MigratedLog(legacy, log) ==
    IF legacy.exists /\ ~log.exists
    THEN IF Trim(legacy.content) # <<>>
         THEN LET r == ParseContent(legacy.content)
              IN  IF r.ok /\ r.v.t = "array"
                  THEN File(ToJsonl(r.v.items))
                  ELSE log                    \* JSON.parse or json.map threw
         ELSE log
    ELSE log

\* Mutant of LoadedWatermark: the first line is read.
LoadedWatermark_FirstLine(log, old) ==
    IF log.exists
    THEN LET r == ParseLine(LinesOf(log.content)[1])
         IN  IF r.ok /\ r.v.t # "null" THEN LevelOf(r.v) ELSE old
    ELSE old

\* Mutant of LoadedWatermark: a corrupt trailing line is skipped and the
\* last line that parses is used.
LoadedWatermark_SkipCorrupt(log, old) ==
    LET entries == EntriesOf(log)
    IN  IF entries # <<>> /\ entries[Len(entries)].t # "null"
        THEN LevelOf(entries[Len(entries)])
        ELSE old

\* Mutant of LoadedWatermark: the watermark is not reloaded.
LoadedWatermark_NotLoaded(log, old) == old

\* Lines 40-53: the watermark after reading the log's trailing line.
LoadedWatermark(log, old) ==
    IF log.exists
    THEN LET lines == LinesOf(log.content)
             r == ParseLine(lines[Len(lines)])
         IN  IF r.ok /\ r.v.t # "null"
             THEN LevelOf(r.v)
             ELSE old                         \* JSON.parse or .level threw
    ELSE old

(***************************************************************************)
(* Inbound messages                                                        *)
(***************************************************************************)
\* A JSON object received on the socket: its fields type, target and
\* arguments (each optional) and the number of its other keys.
Msg(type, target, arguments, extra) ==
    [t |-> "msg", type |-> type, target |-> target, arguments |-> arguments,
     extra |-> extra]
Update(data) == [t |-> "update", data |-> data]
Proposer(alias, address) == [t |-> "proposer", alias |-> alias, address |-> address]
Block(level, ema, lbToggleVote, lbToggle, proposer) ==
    [t |-> "block", level |-> level, lbToggleEma |-> ema,
     lbToggleVote |-> lbToggleVote, lbToggle |-> lbToggle, proposer |-> proposer]

Present(o) == IF IsSome(o) THEN 1 ELSE 0

\* Object.keys(v).length; Object.keys(null) throws (see Handle).
KeysLength(v) ==
    CASE v.t = "msg" -> Present(v.type) + Present(v.target) + Present(v.arguments) + v.extra
      [] v.t = "array" -> Len(v.items)
      [] v.t = "string" -> IF v.s = "" THEN 0 ELSE 1
      [] v.t \in {"number", "boolean"} -> 0
      [] OTHER -> 1

\* v.type, v.target, v.arguments, v.data, v[0]: undefined when v has no such
\* property.
TypeOf(v) == IF v.t = "msg" THEN v.type ELSE None
TargetOf(v) == IF v.t = "msg" THEN v.target ELSE None
ArgumentsOf(v) == IF v.t = "msg" THEN v.arguments ELSE None
DataOf(v) == IF v.t = "update" THEN v.data ELSE None
FirstOf(v) == IF v.t = "array" /\ v.items # <<>> THEN Some(v.items[1]) ELSE None

\* The delimiter character (TERMINATOR) in a chunk.
Term == [fmt |-> "term", v |-> Null]

\* Mutant of Framed: the delimiter is left out.
Framed_NoDelimiter(x) == <<Compact(x)>>

\* The outbound messages, and what socket.send is given:
\* JSON.stringify(x) + TERMINATOR.
Framed(x) == <<Compact(x), Term>>
HandshakeFrame == [protocol |-> "json", version |-> HandshakeVersion]
SubscribeFrame == [type |-> InvocationType, target |-> "SubscribeToBlocks", arguments |-> <<>>]

(***************************************************************************)
(* Block reduction (lines 162-200)                                         *)
(***************************************************************************)
\* Mutant of RawVote: lbToggle is looked at first.
RawVote_ToggleFirst(block) ==
    IF block.lbToggle = Some(JBool(TRUE)) THEN JStr("ON")
    ELSE IF block.lbToggle = Some(JBool(FALSE)) THEN JStr("OFF")
    ELSE IF TruthyOpt(block.lbToggleVote) THEN Get(block.lbToggleVote)
    ELSE JStr("PASS")

\* Lines 169-177: the vote before toUpperCase; any truthy lbToggleVote is
\* taken as it is.
RawVote(block) ==
    IF TruthyOpt(block.lbToggleVote) THEN Get(block.lbToggleVote)
    ELSE IF block.lbToggle = Some(JBool(TRUE)) THEN JStr("ON")
    ELSE IF block.lbToggle = Some(JBool(FALSE)) THEN JStr("OFF")
    ELSE JStr("PASS")

\* vote.toUpperCase() throws unless vote is a string.
VoteThrows(block) == RawVote(block).t # "string"
DeriveVote(block) == ToUpperCase(RawVote(block).s)

\* Mutant of ShouldTrack: ON_OFF lets every vote through.
ShouldTrack_OnOffAll(vote, m) ==
    \/ m = "ALL"
    \/ m = "ON_OFF"
    \/ (m = "OFF_ONLY" /\ vote = "OFF")

\* Mutant of ShouldTrack: under ON_OFF only ON blocks are tracked.
ShouldTrack_OffHidden(vote, m) ==
    \/ m = "ALL"
    \/ (m = "ON_OFF" /\ vote = "ON")
    \/ (m = "OFF_ONLY" /\ vote = "OFF")

\* Lines 180-183.
ShouldTrack(vote, m) ==
    \/ m = "ALL"
    \/ (m = "ON_OFF" /\ (vote = "ON" \/ vote = "OFF"))
    \/ (m = "OFF_ONLY" /\ vote = "OFF")

\* Lines 186-187: baker.alias || baker.address; throws when proposer is
\* undefined or null.
BakerThrows(block) ==
    ~IsSome(block.proposer) \/ Get(block.proposer).t # "proposer"
BakerName(block) ==
    LET baker == Get(block.proposer)
    IN  IF TruthyOpt(baker.alias) THEN baker.alias ELSE baker.address

\* Mutant of Progress: the multiplication comes first.
Progress_MultiplyFirst(ema) ==
    FDiv((IF ema.t = "number" THEN ema.n \div 10000000 ELSE 0) * 100,
         THRESHOLD \div 10000000)

\* Lines 189-191: (ema / MAX_EMA) * 100 and (ema / THRESHOLD) * 100.  A null
\* ema counts as 0 in arithmetic.
EmaNumber(ema) == IF ema.t = "number" THEN ema.n ELSE 0
Pct(ema) == FMul(FDiv(EmaNumber(ema), MAX_EMA), 100)
Progress(ema) == FMul(FDiv(EmaNumber(ema), THRESHOLD), 100)

\* The EMA values the specifications feed (multiples of EmaStep), with pct
\* and progress of each computed once; any other value is computed in place.
EmaStep == THRESHOLD \div 100
EmaInputs == {JNum(k * EmaStep) : k \in 0..MaxEmaSteps}
Numbers == [ema \in EmaInputs |-> [pct |-> Pct(ema), progress |-> Progress(ema)]]
NumbersOf(ema) ==
    IF ema \in EmaInputs THEN Numbers[ema]
    ELSE [pct |-> Pct(ema), progress |-> Progress(ema)]

\* Lines 193-200: blockData.
Snapshot(block) ==
    [level |-> block.level,
     ema |-> Get(block.lbToggleEma),
     pct |-> NumbersOf(Get(block.lbToggleEma)).pct,
     progress |-> NumbersOf(Get(block.lbToggleEma)).progress,
     vote |-> DeriveVote(block),
     baker |-> BakerName(block)]

\* Mutant of PushHistory: over the limit, the newest snapshot is dropped.
PushHistory_DropNewest(history, snap) ==
    LET pushed == Append(history, snap)
    IN  IF Len(pushed) > HISTORY_LIMIT THEN SubSeq(pushed, 1, HISTORY_LIMIT) ELSE pushed

\* Lines 206-211: push, then shift when over the limit.
PushHistory(history, snap) ==
    LET pushed == Append(history, snap)
    IN  IF Len(pushed) > HISTORY_LIMIT THEN Tail(pushed) ELSE pushed

\* Mutant of ShouldAppend: >= instead of >.
ShouldAppend_AtLeast(level, watermark) ==
    IsSome(level) /\ IsSome(watermark) /\ Get(level) >= Get(watermark)

\* Mutant of ShouldAppend: every OFF block with a level is appended.
ShouldAppend_Always(level, watermark) == IsSome(level)

\* Mutant of NewLatest: a snapshot filtered out of the history does not
\* become the current one.
NewLatest_OnlyTracked(old, snap, track) ==
    IF track THEN [t |-> "snapshot", snap |-> snap] ELSE old

\* Line 203: latestBlock = blockData, whatever shouldTrack says.
NewLatest(old, snap, track) == [t |-> "snapshot", snap |-> snap]

\* Line 217.
ShouldAppend(level, watermark) == GreaterThan(level, watermark)

\* Mutant of AppendLine: the file is written anew with the entry.
AppendLine_Rewrite(file, entry) == File(Line(entry))

\* Line 226: fs.appendFileSync(LOG_FILE, JSON.stringify(entry) + "\n"); the
\* file is created when it does not exist.
AppendLine(file, entry) == File(file.content \o Line(entry))

\* Mutant of NextWatermark: the watermark is set before the append.
NextWatermark_BeforeAppend(old, level, wants, io) ==
    IF wants THEN level ELSE old

\* Lines 217-227: lastLoggedLevel = level comes after appendFileSync, so it
\* is reached only when the append was wanted and did not throw.
NextWatermark(old, level, wants, io) ==
    IF wants /\ io THEN level ELSE old

\* Mutant of AppendEscapes: the I/O error leaves the log block and reaches the
\* catch of the frame.
AppendEscapes_Propagates(threw) == threw

\* Lines 215-231: an exception of fs.appendFileSync is caught around the
\* append, so it never leaves the log block.
AppendEscapes(threw) == FALSE

(***************************************************************************)
(* renderDashboard (lines 64-121)                                          *)
(***************************************************************************)
\* x.toLocaleString() / x.toFixed() throw when x is undefined or null.
\* Rendering writes to the terminal only; it throws on a current snapshot or
\* a history row without level, or a current snapshot with a null ema.
RenderThrows(latest, history) ==
    /\ latest.t # "null"
    /\ \/ ~IsSome(latest.snap.level)
       \/ latest.snap.ema.t = "null"
       \/ \E i \in 1..Len(history) : ~IsSome(history[i].level)

\* Mutant of Status: the warning tier starts at 80.
Status_WarningFrom80(progress) ==
    IF FGe(progress, 100) THEN "SUBSIDY DISABLED"
    ELSE IF FGe(progress, 80) THEN "CLOSE TO DEACTIVATION"
    ELSE "SUBSIDIES ACTIVE"

\* Lines 89-97: the status bar.
Status(progress) ==
    IF FGe(progress, 100) THEN "SUBSIDY DISABLED"
    ELSE IF FGt(progress, 80) THEN "CLOSE TO DEACTIVATION"
    ELSE "SUBSIDIES ACTIVE"

Reverse(q) == [i \in 1..Len(q) |-> q[Len(q) + 1 - i]]

\* Mutant of HistoryAfterReverse: the array itself is reversed.
HistoryAfterReverse_InPlace(history) == Reverse(history)

\* Line 112: [...blockHistory].reverse() reverses a copy; blockHistory is
\* what it was.
HistoryAfterReverse(history) == history

\* renderDashboard: what it shows (connection line, status bar, filter in
\* the header, rows of the history newest first up to a row that throws),
\* whether it threw, and blockHistory after the call.
RenderDashboard(connected, latest, history, m) ==
    IF latest.t = "null"                       \* lines 73-76: early return
    THEN [threw |-> FALSE, connected |-> connected, banner |-> "",
          filter |-> "", rows |-> <<>>, history |-> history]
    ELSE IF ~IsSome(latest.snap.level) \/ latest.snap.ema.t = "null"
    THEN [threw |-> TRUE, connected |-> connected, banner |-> "",
          filter |-> "", rows |-> <<>>, history |-> history]
    ELSE LET shown == Reverse(history)
             bad == {i \in 1..Len(shown) : ~IsSome(shown[i].level)}
             n == IF bad = {} THEN Len(shown)
                  ELSE (CHOOSE i \in bad : \A k \in bad : i <= k) - 1
         IN  [threw |-> RenderThrows(latest, history),
              connected |-> connected,
              banner |-> Status(latest.snap.progress),
              filter |-> IF m # "ALL" THEN m ELSE "",
              rows |-> SubSeq(shown, 1, n),
              history |-> HistoryAfterReverse(history)]

(***************************************************************************)
(* socket.onmessage (lines 135-243), one frame                             *)
(***************************************************************************)
NoSnapshot == [t |-> "null"]
Latest(snap) == [t |-> "snapshot", snap |-> snap]

\* What the handler did with one frame (history variable ev).
\*   res: "empty" | "threw" | "subscribe" | "ping" | "ignored" | "noema" | "block"
\*   block: the first block of a block-update message, if the frame had one
\*   io: the file system accepted appends
\*   rendered: renderDashboard was called; renderThrew: it threw
\*   shown: what renderDashboard showed (none or one)
Outcome(res) ==
    [res |-> res, block |-> None, level |-> None, vote |-> "", io |-> TRUE,
     pushed |-> FALSE, appended |-> FALSE, rendered |-> FALSE,
     renderThrew |-> FALSE, shown |-> <<>>]
OfBlock(out, block) == [out EXCEPT !.block = Some(block)]

Max(S) == CHOOSE x \in S : \A y \in S : y <= x

\* The part of the program state one onmessage call works on.
HandlerState ==
    [latestBlock |-> latestBlock, blockHistory |-> blockHistory,
     lastLoggedLevel |-> lastLoggedLevel, logFile |-> logFile, sent |-> sent,
     tracked |-> tracked, offSeen |-> offSeen, inOrder |-> inOrder,
     ioFailed |-> ioFailed, isConnected |-> isConnected, outs |-> <<>>]

Done(st, out) == [st EXCEPT !.outs = Append(@, out)]

\* Lines 203-236 for a block that has an EMA, a string vote and a proposer,
\* snap being its snapshot.  io is FALSE when fs.appendFileSync throws.
ReduceSnapshot(st, block, snap, io) ==
    LET vote == snap.vote
        level == snap.level
        track == ShouldTrack(vote, mode)
        history == IF track THEN PushHistory(st.blockHistory, snap)
                   ELSE st.blockHistory
        wants == vote = "OFF" /\ ShouldAppend(level, st.lastLoggedLevel)
        appends == wants /\ io
        escapes == AppendEscapes(wants /\ ~io)
        entry == Entry(level, vote, snap.baker, snap.ema)
        isOff == vote = "OFF" /\ IsSome(level)
        stays == /\ st.inOrder
                 /\ isOff /\ st.offSeen # {} => Get(level) >= Max(st.offSeen)
        After(render) ==
            Done([st EXCEPT
                    !.latestBlock = NewLatest(@, snap, track),
                    !.blockHistory = IF escapes THEN history ELSE render.history,
                    !.tracked = IF track THEN Append(@, snap) ELSE @,
                    !.logFile = IF appends THEN AppendLine(@, entry) ELSE @,
                    !.lastLoggedLevel = NextWatermark(@, level, wants, io),
                    !.inOrder = stays,
                    !.offSeen = IF ~stays THEN {}
                                ELSE IF isOff THEN @ \cup {Get(level)} ELSE @,
                    !.ioFailed = stays /\ (@ \/ (wants /\ ~io))],
                 [res |-> "block", block |-> Some(block), level |-> level,
                  vote |-> vote, io |-> io, pushed |-> track, appended |-> appends,
                  rendered |-> ~escapes,
                  renderThrew |-> ~escapes /\ render.threw,
                  shown |-> IF escapes THEN <<>> ELSE <<render>>])
    IN  CHOOSE done \in { After(render) : render \in
                            {RenderDashboard(st.isConnected, Latest(snap), history, mode)} } :
            TRUE

\* Lines 162-200, then 203-236 with the snapshot built.
ReduceBlock(st, block, io) ==
    CHOOSE done \in { ReduceSnapshot(st, block, snap, io) : snap \in {Snapshot(block)} } :
        TRUE

\* Mutant of HandleBlock: a block without lbToggleEma is reduced with EMA 0.
HandleBlock_NoEmaCheck(st, block, io) ==
    IF block.t # "block" THEN Done(st, OfBlock(Outcome("threw"), block))
    ELSE IF VoteThrows(block) \/ BakerThrows(block)
    THEN Done(st, OfBlock(Outcome("threw"), block))
    ELSE IF ~IsSome(block.lbToggleEma)
    THEN LET done == ReduceBlock(st, [block EXCEPT !.lbToggleEma = Some(JNum(0))], io)
         IN  [done EXCEPT !.outs[Len(done.outs)].res = "noema",
                          !.outs[Len(done.outs)].block = Some(block)]
    ELSE ReduceBlock(st, block, io)

\* Lines 162-187: the checks before the snapshot is built.
HandleBlock(st, block, io) ==
    IF block.t = "null" THEN Done(st, OfBlock(Outcome("threw"), block))
    ELSE IF block.t # "block" \/ ~IsSome(block.lbToggleEma)
    THEN Done(st, OfBlock(Outcome("noema"), block))
    ELSE IF VoteThrows(block) \/ BakerThrows(block)
    THEN Done(st, OfBlock(Outcome("threw"), block))
    ELSE ReduceBlock(st, block, io)

\* Mutant of FirstBlock: the last element of data is taken.
FirstBlock_Last(msg) ==
    LET args == ArgumentsOf(msg)
        first == IF TruthyOpt(args) THEN FirstOf(Get(args)) ELSE None
        data == IF TruthyOpt(first) THEN DataOf(Get(first)) ELSE None
    IN  IF TruthyOpt(data) /\ Get(data).t = "array" /\ Get(data).items # <<>>
        THEN Some(Get(data).items[Len(Get(data).items)])
        ELSE None

\* Lines 157-161: the block of a block-update message, if it has one.
FirstBlock(msg) ==
    LET args == ArgumentsOf(msg)
        first == IF TruthyOpt(args) THEN FirstOf(Get(args)) ELSE None
        data == IF TruthyOpt(first) THEN DataOf(Get(first)) ELSE None
    IN  IF TruthyOpt(data) THEN FirstOf(Get(data)) ELSE None

IsBlockUpdate(msg) ==
    /\ TypeOf(msg) = Some(JNum(InvocationType))
    /\ TargetOf(msg) = Some(JStr("blocks"))

\* Mutant of HandlePing: a keep-alive is answered and the dashboard redrawn.
HandlePing_Answered(st) ==
    Done([st EXCEPT !.sent = Append(@, Framed([type |-> PingType]))],
         [Outcome("ping") EXCEPT !.rendered = TRUE])

\* Line 155: if (msg.type === 6) continue.
HandlePing(st) == Done(st, Outcome("ping"))

\* Lines 139-241: the body of the loop for one fragment of the chunk.
Handle(st, frag, io) ==
    IF frag = <<>> THEN Done(st, Outcome("empty"))
    ELSE LET r == ParseLine(frag)
         IN  IF ~r.ok \/ r.v.t = "null" THEN Done(st, Outcome("threw"))
             ELSE IF KeysLength(r.v) = 0
             THEN Done([st EXCEPT !.sent = Append(@, Framed(SubscribeFrame))],
                       Outcome("subscribe"))
             ELSE IF TypeOf(r.v) = Some(JNum(PingType))
             THEN HandlePing(st)
             ELSE IF IsBlockUpdate(r.v) /\ IsSome(FirstBlock(r.v))
             THEN HandleBlock(st, Get(FirstBlock(r.v)), io)
             ELSE Done(st, Outcome("ignored"))

\* Mutant of HandleAll: the loop ends at the first fragment that threw.
RECURSIVE HandleAll_StopOnThrow(_, _, _, _)
HandleAll_StopOnThrow(st, frags, ios, i) ==
    IF i > Len(frags) THEN st
    ELSE LET done == Handle(st, frags[i], ios[i])
         IN  IF done.outs[Len(done.outs)].res = "threw" THEN done
             ELSE HandleAll_StopOnThrow(done, frags, ios, i + 1)

\* Mutant of HandleAll: the fragments are handled from the last to the first.
RECURSIVE HandleAll_Backwards(_, _, _, _)
HandleAll_Backwards(st, frags, ios, i) ==
    IF i > Len(frags) THEN st
    ELSE Handle(HandleAll_Backwards(st, frags, ios, i + 1), frags[i], ios[i])

\* The for loop of onmessage over the fragments; ios[i] tells whether the
\* file system accepts an append while fragment i is handled.
RECURSIVE HandleAll(_, _, _, _)
HandleAll(st, frags, ios, i) ==
    IF i > Len(frags) THEN st
    ELSE HandleAll(Handle(st, frags[i], ios[i]), frags, ios, i + 1)

(***************************************************************************)
(* Actions                                                                 *)
(***************************************************************************)
\* What the last step did (history variable ev): the handler that ran, the
\* outcome of each fragment or render call, and for onmessage the chunk and
\* the state of the file system during each fragment.
Event(kind, outs) == [kind |-> kind, outs |-> outs, chunk |-> <<>>, ios |-> <<>>]

\* The call of renderDashboard that ends onopen and onclose; an exception it
\* throws leaves the handler.
Rendered(render) ==
    [Outcome("render") EXCEPT !.rendered = TRUE,
                              !.renderThrew = render.threw,
                              !.shown = <<render>>]

\* The levels of the entries of a log file, in file order (entries without
\* a level left out).
LevelsIn(log) ==
    LET entries == SelectSeq(EntriesOf(log), LAMBDA e : IsSome(LevelOf(e)))
    IN  [i \in 1..Len(entries) |-> Get(LevelOf(entries[i]))]

Range(q) == {q[i] : i \in 1..Len(q)}
IsAscending(q) == \A i, j \in 1..Len(q) : i < j => q[i] < q[j]


\* The module's top-level code: the state after construction, then the
\* start-up block (lines 6-59).  The process starts with the files as they are.
Startup ==
    /\ phase = "off"
    /\ phase' = "connecting"
    /\ logFile' = MigratedLog(legacyFile, logFile)
    /\ lastLoggedLevel' = LoadedWatermark(logFile', Some(InitialWatermark))
    /\ isConnected' = FALSE
    /\ latestBlock' = NoSnapshot
    /\ blockHistory' = <<>>
    /\ sent' = <<>>
    /\ nMsgs' = 0
    /\ tracked' = <<>>
    /\ ev' = Event("startup", <<>>)
    /\ IF logFile' # logFile       \* the legacy levels enter the log
       THEN /\ inOrder' = (inOrder /\ IsAscending(LevelsIn(logFile')))
            /\ offSeen' = IF inOrder' THEN Range(LevelsIn(logFile')) ELSE {}
       ELSE UNCHANGED <<inOrder, offSeen>>
    /\ UNCHANGED <<mode, legacyFile, ioFailed>>

\* The process ends (killed or exits after close); its memory is lost, the
\* files stay.
Restart ==
    /\ phase # "off"
    /\ phase' = "off"
    /\ lastLoggedLevel' = Some(InitialWatermark)
    /\ isConnected' = FALSE
    /\ latestBlock' = NoSnapshot
    /\ blockHistory' = <<>>
    /\ sent' = <<>>
    /\ nMsgs' = 0
    /\ tracked' = <<>>
    /\ ev' = Event("restart", <<>>)
    /\ UNCHANGED <<mode, legacyFile, logFile, offSeen, inOrder, ioFailed>>

\* socket.onopen (lines 123-128).
OnOpen ==
    /\ phase = "connecting"
    /\ phase' = "open"
    /\ isConnected' = TRUE
    /\ sent' = Append(sent, Framed(HandshakeFrame))
    /\ \E render \in {RenderDashboard(TRUE, latestBlock, blockHistory, mode)} :
           /\ blockHistory' = render.history
           /\ ev' = Event("open", <<Rendered(render)>>)
    /\ UNCHANGED <<mode, legacyFile, logFile, lastLoggedLevel, latestBlock,
                   nMsgs, tracked, offSeen, inOrder, ioFailed>>

\* Mutant of OnClose: the client connects again.
OnClose_Reconnects ==
    /\ phase \in {"connecting", "open"}
    /\ phase' = "connecting"
    /\ isConnected' = FALSE
    /\ \E render \in {RenderDashboard(FALSE, latestBlock, blockHistory, mode)} :
           /\ blockHistory' = render.history
           /\ ev' = Event("close", <<Rendered(render)>>)
    /\ UNCHANGED <<mode, legacyFile, logFile, lastLoggedLevel, latestBlock,
                   sent, nMsgs, tracked, offSeen, inOrder, ioFailed>>

\* socket.onclose (lines 130-133).
OnClose ==
    /\ phase \in {"connecting", "open"}
    /\ phase' = "closed"
    /\ isConnected' = FALSE
    /\ \E render \in {RenderDashboard(FALSE, latestBlock, blockHistory, mode)} :
           /\ blockHistory' = render.history
           /\ ev' = Event("close", <<Rendered(render)>>)
    /\ UNCHANGED <<mode, legacyFile, logFile, lastLoggedLevel, latestBlock,
                   sent, nMsgs, tracked, offSeen, inOrder, ioFailed>>

\* socket.onmessage (lines 135-243) for one inbound chunk.
OnMessage(chunk, ios) ==
    /\ phase = "open"
    /\ \E st \in {HandleAll(HandlerState, Split(chunk, Term), ios, 1)} :
           /\ latestBlock' = st.latestBlock
           /\ blockHistory' = st.blockHistory
           /\ lastLoggedLevel' = st.lastLoggedLevel
           /\ logFile' = st.logFile
           /\ sent' = st.sent
           /\ tracked' = st.tracked
           /\ offSeen' = st.offSeen
           /\ inOrder' = st.inOrder
           /\ ioFailed' = st.ioFailed
           /\ ev' = [Event("message", st.outs) EXCEPT !.chunk = chunk, !.ios = ios]
    /\ nMsgs' = nMsgs + 1
    /\ UNCHANGED <<phase, mode, legacyFile, isConnected>>

(***************************************************************************)
(* Inputs                                                                  *)
(***************************************************************************)
EmaHigh == 1100000000
TheProposer == Proposer(None, Some(JStr("tz1X")))

\* {type: 1, target: "blocks", arguments: [{data: blocks}]} and the chunk
\* that carries it: the frame and its delimiter.
BlockMsg(blocks) ==
    Msg(Some(JNum(InvocationType)), Some(JStr("blocks")),
        Some(JArr(<<Update(Some(JArr(blocks)))>>)), 0)
FrameChunk(v) == <<Compact(v), Term>>
SameIo(chunk, io) == [i \in 1..Len(Split(chunk, Term)) |-> io]

\* Blocks of the live feed as the indexer sends them: lbToggle true or false.
LogBlocks ==
    { Block(Some(l), Some(JNum(EmaHigh)), None, Some(JBool(b)), Some(TheProposer)) :
        l \in Levels, b \in BOOLEAN }

\* Sequences of up to n distinct elements of S.
RECURSIVE DistinctSeqs(_, _)
DistinctSeqs(S, n) ==
    IF n = 0 THEN {<<>>}
    ELSE LET shorter == DistinctSeqs(S, n - 1)
         IN  shorter \cup
             UNION { { Append(q, x) : x \in S \ {q[i] : i \in 1..Len(q)} } :
                     q \in shorter }

\* The legacy file as the earlier logger (unnamed/part_000, lines 189-215)
\* leaves it: an array, pretty-printed, of entries with pairwise distinct
\* levels in the order the levels arrived; or no file, an empty file, a file
\* that is not JSON, or an empty array.
LegacyEntries(levels) ==
    [i \in 1..Len(levels) |->
        Entry(Some(levels[i]), "OFF", Some(JStr("tz1X")), JNum(EmaHigh))]
LegacyInputs ==
    {NoFile, File(<<>>), File(<<Junk>>)} \cup
    { File(<<Pretty(JArr(LegacyEntries(q)))>>) : q \in DistinctSeqs(Levels, MaxLegacy) }

(***************************************************************************)
(* Specification Spec: start-ups, restarts, the feed of ON/OFF blocks       *)
(***************************************************************************)
Init ==
    /\ phase = "off"
    /\ mode \in DisplayModes
    /\ legacyFile \in LegacyInputs
    /\ logFile = NoFile
    /\ lastLoggedLevel = Some(InitialWatermark)
    /\ isConnected = FALSE
    /\ latestBlock = NoSnapshot
    /\ blockHistory = <<>>
    /\ sent = <<>>
    /\ nMsgs = 0
    /\ tracked = <<>>
    /\ ev = Event("init", <<>>)
    /\ inOrder = TRUE
    /\ offSeen = {}
    /\ ioFailed = FALSE

FeedLog ==
    /\ phase = "open"
    /\ nMsgs < MaxRunMsgs
    /\ \E b \in LogBlocks, io \in BOOLEAN :
         OnMessage(FrameChunk(BlockMsg(<<b>>)), SameIo(FrameChunk(BlockMsg(<<b>>)), io))

Next ==
    \/ Startup
    \/ Restart
    \/ OnOpen
    \/ OnClose
    \/ FeedLog

Spec == Init /\ [][Next]_vars

(***************************************************************************)
(* Properties of the durable vote log                                      *)
(***************************************************************************)
\* The level of each entry of the log, in file order.
LogLevels ==
    LET entries == EntriesOf(logFile)
    IN  [i \in 1..Len(entries) |-> LevelOf(entries[i])]

Count(q, x) == Cardinality({i \in 1..Len(q) : q[i] = x})

\* The elements of a set of integers in ascending order.
RECURSIVE SortedSeq(_)
SortedSeq(S) ==
    IF S = {} THEN <<>>
    ELSE LET m == CHOOSE x \in S : \A y \in S : x <= y
         IN  <<m>> \o SortedSeq(S \ {m})

\* The frames of the last step that were OFF blocks handled while the file
\* system accepted appends.
OffOutcomes ==
    IF ev.kind = "message"
    THEN { ev.outs[i] : i \in { j \in 1..Len(ev.outs) :
              /\ ev.outs[j].res = "block"
              /\ ev.outs[j].vote = "OFF"
              /\ ev.outs[j].io } }
    ELSE {}

IsStartupStep == phase = "off" /\ phase' = "connecting"

\* C1: in every reachable state, no two entries of the log have the same
\* level.
C1_NoTwoEntriesShareLevel ==
    \A i, j \in 1..Len(LogLevels) : i < j => LogLevels[i] # LogLevels[j]

C3_LogIdempotence ==
    (inOrder /\ ~ioFailed) =>
        LogLevels = [i \in 1..Cardinality(offSeen) |-> Some(SortedSeq(offSeen)[i])]

\* C3 witness: no legacy log; two levels are logged, this run handled a single
\* message (so a restart lies between the two appends), and that message
\* delivered the highest logged level again without a new entry.
C3_Witness ==
    /\ inOrder /\ ~ioFailed
    /\ ~legacyFile.exists
    /\ Len(LogLevels) = 2
    /\ nMsgs = 1
    /\ \E o \in OffOutcomes : ~o.appended /\ o.level = Some(Max(offSeen))

\* C9: a start-up that finds the legacy array and no newline-delimited log
\* leaves a log with exactly one line per element of the array, in order,
\* each line that element serialized, and leaves the legacy file as it was.
RECURSIVE OneLinePerElement(_)
OneLinePerElement(items) ==
    IF items = <<>> THEN <<>>
    ELSE Line(Head(items)) \o OneLinePerElement(Tail(items))

LegacyArray == ParseContent(legacyFile.content)

C10_MigrationOnce ==
    [][IsStartupStep
       => /\ logFile.exists => logFile' = logFile
          /\ MigratedLog(legacyFile', logFile') = logFile']_vars

\* C10 witness: a start-up has just run with a legacy array present and a
\* newline-delimited log that already held more than the migrated entries.
C10_Witness ==
    /\ ev.kind = "startup"
    /\ LegacyArray.ok /\ LegacyArray.v.t = "array" /\ LegacyArray.v.items # <<>>
    /\ logFile.exists
    /\ logFile # MigratedLog(legacyFile, NoFile)

(***************************************************************************)
(* Specification SpecBlocks: one run fed with blocks of every vote shape   *)
(***************************************************************************)
\* lbToggleVote as the feed may carry it: absent, empty, a tri-state string
\* in some letter case, or another string.
VoteInputs ==
    {None} \cup { Some(JStr(v)) : v \in {"", "off", "On", "PASS", "maybe"} }
TriStateInputs ==
    {None} \cup { Some(JStr(v)) : v \in {"", "off", "On", "PASS"} }
\* lbToggle: true, false, or absent / null.
ToggleInputs == {None, Some(JBool(TRUE)), Some(JBool(FALSE))}

\* The blocks at one level: every vote shape with an EMA and a proposer, one
\* with a proposer alias, blocks without EMA, and malformed ones (a
\* lbToggleVote that is no string, no proposer).
BlockInputs(level) ==
    { Block(Some(level), Some(JNum(EmaHigh)), v, g, Some(TheProposer)) :
        v \in VoteInputs, g \in ToggleInputs }
    \cup
    { Block(Some(level), Some(JNum(EmaHigh)), None, Some(JBool(FALSE)),
            Some(Proposer(Some(JStr("Baker")), Some(JStr("tz1X"))))),
      Block(Some(level), None, None, Some(JBool(FALSE)), Some(TheProposer)),
      Block(Some(level), None, Some(JStr("on")), None, Some(TheProposer)),
      Block(Some(level), Some(JNum(EmaHigh)), Some(JNum(1)), None, Some(TheProposer)),
      Block(Some(level), Some(JNum(EmaHigh)), None, Some(JBool(FALSE)), None) }

\* A first start without a legacy log.
InitNoLegacy == Init /\ legacyFile = NoFile

\* The live feed: the block of the next level, in any shape.
FeedBlocks ==
    /\ phase = "open"
    /\ nMsgs < MaxRunMsgs
    /\ \E b \in BlockInputs(nMsgs + 1), io \in BOOLEAN :
         OnMessage(FrameChunk(BlockMsg(<<b>>)), SameIo(FrameChunk(BlockMsg(<<b>>)), io))

NextBlocks ==
    \/ Startup
    \/ OnOpen
    \/ OnClose
    \/ FeedBlocks

SpecBlocks == InitNoLegacy /\ [][NextBlocks]_vars

(***************************************************************************)
(* Specification SpecHist: one long run of OFF and PASS blocks             *)
(***************************************************************************)
FeedHist ==
    /\ phase = "open"
    /\ nMsgs < MaxBlocks
    /\ \E g \in {None, Some(JBool(FALSE))} :
         LET b == Block(Some(nMsgs + 1), Some(JNum(EmaHigh)), None, g, Some(TheProposer))
         IN  OnMessage(FrameChunk(BlockMsg(<<b>>)), SameIo(FrameChunk(BlockMsg(<<b>>)), TRUE))

NextHist ==
    \/ Startup
    \/ OnOpen
    \/ FeedHist

SpecHist == InitNoLegacy /\ [][NextHist]_vars

(***************************************************************************)
(* Properties of the current snapshot and the history buffer               *)
(***************************************************************************)
\* The last n elements of a sequence (all of it when it is shorter).
LastN(q, n) == SubSeq(q, IF Len(q) > n THEN Len(q) - n + 1 ELSE 1, Len(q))

\* The frames of the last step that carried a first block, in frame order.
BlockOutcomes ==
    IF ev.kind = "message"
    THEN SelectSeq(ev.outs, LAMBDA o : IsSome(o.block))
    ELSE <<>>

IsMessageStep == phase = "open" /\ nMsgs' = nMsgs + 1

\* The event of a chunk made of one frame and its delimiter (the piece after
\* the delimiter is empty and skipped).
OneFrame(e) == e.kind = "message" /\ Len(e.outs) = 2 /\ e.outs[2].res = "empty"

\* A block record as section 4.3 describes it, with an EMA: lbToggleVote is
\* absent or a string, the proposer is an object.
HasEma(b) == b.t = "block" /\ IsSome(b.lbToggleEma)
WellFormed(b) ==
    /\ b.t = "block"
    /\ IsSome(b.proposer) /\ Get(b.proposer).t = "proposer"
    /\ IsSome(b.lbToggleVote) => Get(b.lbToggleVote).t = "string"

\* C4: the history never holds more than 10 snapshots, and it is the last 10
\* (or fewer) of the snapshots tracked in this run, oldest first.
C4_HistoryBounded ==
    /\ Len(blockHistory) <= HISTORY_LIMIT
    /\ blockHistory = LastN(tracked, HISTORY_LIMIT)

\* C4 witness: more than 10 snapshots were tracked under a filtering mode
\* that also left a block out.
C4_Witness ==
    /\ Len(tracked) > HISTORY_LIMIT
    /\ Len(blockHistory) = HISTORY_LIMIT
    /\ nMsgs > Len(tracked)

\* C5: after a block-update message whose first block carries an EMA (and is
\* a well-formed block record), the current snapshot is the one derived from
\* that block, in every mode and for every vote.
C5_CurrentSnapshotReplaced ==
    LET outs == BlockOutcomes
        b == Get(outs[Len(outs)].block)
    IN  (outs # <<>> /\ HasEma(b) /\ WellFormed(b))
            => latestBlock = Latest(Snapshot(b))

\* C5 witness: a PASS block was filtered out of the history under OFF_ONLY
\* and is the current snapshot.
C5_Witness ==
    LET outs == BlockOutcomes
    IN  /\ outs # <<>>
        /\ mode = "OFF_ONLY"
        /\ outs[1].res = "block" /\ outs[1].vote = "PASS" /\ ~outs[1].pushed
        /\ blockHistory # <<>>
        /\ latestBlock.t = "snapshot" /\ latestBlock.snap.vote = "PASS"

\* The filter as section 4.4 states it.
TrackRule(vote, m) ==
    CASE m = "ALL" -> TRUE
      [] m = "ON_OFF" -> vote \in {"ON", "OFF"}
      [] m = "OFF_ONLY" -> vote = "OFF"

\* C6: every snapshot in the history satisfies the filter of the configured
\* mode, and a message that yields a snapshot appends it to the history iff
\* the filter holds for it.
C6_HistoryFiltered ==
    [][/\ \A i \in 1..Len(blockHistory') : TrackRule(blockHistory'[i].vote, mode')
       /\ (IsMessageStep /\ OneFrame(ev') /\ ev'.outs[1].res = "block")
            => blockHistory' =
                 IF TrackRule(ev'.outs[1].vote, mode)
                 THEN LastN(Append(blockHistory, latestBlock'.snap), HISTORY_LIMIT)
                 ELSE blockHistory]_vars

\* C6 witness: under ON_OFF a PASS block was left out after another block
\* was let in.
C6_Witness ==
    LET outs == BlockOutcomes
    IN  /\ outs # <<>>
        /\ mode = "ON_OFF"
        /\ outs[1].res = "block" /\ outs[1].vote = "PASS"
        /\ Len(blockHistory) = 1 /\ blockHistory[1].vote \in {"ON", "OFF"}

\* C7: a block-update message whose first block has no lbToggleEma yields no
\* snapshot and leaves the current snapshot, the history, the log and the
\* watermark as they were.
C7_NoEmaNoChange ==
    [][(/\ IsMessageStep
        /\ OneFrame(ev')
        /\ IsSome(ev'.outs[1].block)
        /\ ~HasEma(Get(ev'.outs[1].block)))
       => /\ ev'.outs[1].res # "block"
          /\ UNCHANGED <<latestBlock, blockHistory, logFile, lastLoggedLevel>>]_vars

\* C7 witness: an OFF block above the watermark arrived without an EMA while
\* an earlier snapshot was current; that snapshot is still current.
C7_Witness ==
    LET outs == BlockOutcomes
    IN  /\ outs # <<>>
        /\ ~HasEma(Get(outs[1].block))
        /\ Get(outs[1].block).lbToggle = Some(JBool(FALSE))
        /\ GreaterThan(Get(outs[1].block).level, lastLoggedLevel)
        /\ latestBlock.t = "snapshot"
        /\ latestBlock.snap.level # Get(outs[1].block).level

TriState == {"ON", "OFF", "PASS"}

\* The snapshots held as current or in the history.
HeldSnapshots ==
    {blockHistory[i] : i \in 1..Len(blockHistory)} \cup
    (IF latestBlock.t = "snapshot" THEN {latestBlock.snap} ELSE {})

\* C8 as stated: lbToggleVote being absent, empty or any string, every
\* snapshot held as current or in the history has a vote in {ON, OFF, PASS}.
C8_VoteTriStateAnyString ==
    \A snap \in HeldSnapshots : snap.vote \in TriState

\* The vote section 4.3 gives a block: a non-empty lbToggleVote in upper
\* case, else ON / OFF by lbToggle, else PASS.
VoteRule(b) ==
    IF IsSome(b.lbToggleVote) /\ Get(b.lbToggleVote).s # ""
    THEN CASE Get(b.lbToggleVote).s \in {"on", "On", "ON"} -> "ON"
           [] Get(b.lbToggleVote).s \in {"off", "Off", "OFF"} -> "OFF"
           [] Get(b.lbToggleVote).s \in {"pass", "Pass", "PASS"} -> "PASS"
    ELSE IF b.lbToggle = Some(JBool(TRUE)) THEN "ON"
    ELSE IF b.lbToggle = Some(JBool(FALSE)) THEN "OFF"
    ELSE "PASS"

\* C8 amended: for lbToggleVote absent, empty or one of on / off / pass in any
\* letter case, and any lbToggle, the snapshot's vote is the one of ON, OFF,
\* PASS that the rule gives, a non-empty lbToggleVote taking precedence over
\* lbToggle.
C8_VoteTriState ==
    LET outs == BlockOutcomes
        b == Get(outs[Len(outs)].block)
    IN  (/\ outs # <<>> /\ HasEma(b) /\ WellFormed(b)
         /\ b.lbToggleVote \in TriStateInputs)
            => /\ latestBlock.t = "snapshot"
               /\ latestBlock.snap.vote = VoteRule(b)
               /\ latestBlock.snap.vote \in TriState

\* C8 witness: lbToggleVote "On" with lbToggle false gave the vote ON.
C8_Witness ==
    LET outs == BlockOutcomes
    IN  /\ outs # <<>>
        /\ HasEma(Get(outs[1].block)) /\ WellFormed(Get(outs[1].block))
        /\ Get(outs[1].block).lbToggleVote = Some(JStr("On"))
        /\ Get(outs[1].block).lbToggle = Some(JBool(FALSE))
        /\ latestBlock.t = "snapshot" /\ latestBlock.snap.vote = "ON"

(***************************************************************************)
(* Specification SpecLogs: start-ups over logs in every condition          *)
(***************************************************************************)
LogEntry(level) == Entry(Some(level), "OFF", Some(JStr("tz1X")), JNum(EmaHigh))

\* The newline-delimited log as a start-up may find it: no file, an empty
\* file, white space only, entries (also followed by empty lines, also after a
\* corrupt line), a corrupt trailing line (a partial write without newline, or
\* a full line), a trailing line "null", a trailing line that is JSON but no
\* log entry.
LogInputs ==
    {NoFile, File(<<>>), File(<<Blank, NL>>),
     File(<<Junk>>), File(<<Junk, NL>>), File(<<Compact(Null), NL>>),
     File(<<Compact(JNum(5)), NL>>)}
    \cup { File(Line(LogEntry(l))) : l \in Levels }
    \cup { File(Line(LogEntry(l)) \o <<NL, Blank, NL>>) : l \in Levels }
    \cup { File(<<Junk, NL>> \o Line(LogEntry(l))) : l \in Levels }
    \cup { File(Line(LogEntry(l)) \o <<Junk>>) : l \in Levels }
    \cup { File(Line(LogEntry(l)) \o <<Compact(LogEntry(l)), Junk, NL>>) : l \in Levels }

InitLogs ==
    /\ phase = "off"
    /\ mode = "OFF_ONLY"
    /\ legacyFile \in {NoFile,
                       File(<<Pretty(JArr(LegacyEntries(<<1, MaxLevel>>)))>>)}
    /\ logFile \in LogInputs
    /\ lastLoggedLevel = Some(InitialWatermark)
    /\ isConnected = FALSE
    /\ latestBlock = NoSnapshot
    /\ blockHistory = <<>>
    /\ sent = <<>>
    /\ nMsgs = 0
    /\ tracked = <<>>
    /\ ev = Event("init", <<>>)
    /\ inOrder = FALSE
    /\ offSeen = {}
    /\ ioFailed = FALSE

\* The live feed of OFF blocks, from level 0 on.
FeedLogs ==
    /\ phase = "open"
    /\ nMsgs < MaxRunMsgs
    /\ \E l \in 0..MaxLevel, io \in BOOLEAN :
         LET blk == Block(Some(l), Some(JNum(EmaHigh)), None, Some(JBool(FALSE)),
                          Some(TheProposer))
         IN  OnMessage(FrameChunk(BlockMsg(<<blk>>)),
                       SameIo(FrameChunk(BlockMsg(<<blk>>)), io))

NextLogs ==
    \/ Startup
    \/ Restart
    \/ OnOpen
    \/ OnClose
    \/ FeedLogs

SpecLogs == InitLogs /\ [][NextLogs]_vars

(***************************************************************************)
(* Properties of the watermark load                                        *)
(***************************************************************************)
\* The lines of a text that hold more than white space, in order.
NonEmptyLines(content) ==
    SelectSeq(Split(content, NL),
              LAMBDA line : \E i \in 1..Len(line) : ~IsSpace(line[i]))

\* The log has a trailing non-empty line and it parses as a log entry.
HasTrailingEntry(log) ==
    /\ log.exists
    /\ NonEmptyLines(log.content) # <<>>
    /\ LET lines == NonEmptyLines(log.content)
           r == ParseLine(lines[Len(lines)])
       IN  r.ok /\ r.v.t = "entry" /\ IsSome(r.v.level)

TrailingEntry(log) ==
    LET lines == NonEmptyLines(log.content)
    IN  ParseLine(lines[Len(lines)]).v

\* The log is empty (or white space), or its trailing line is not JSON.
EmptyOrCorrupt(log) ==
    /\ log.exists
    /\ LET lines == NonEmptyLines(log.content)
       IN  lines = <<>> \/ ~ParseLine(lines[Len(lines)]).ok

\* C11: right after a start-up that found (or produced by migration) a log
\* whose trailing non-empty line parses as a log entry, the watermark is that
\* entry's level.
C11_WatermarkFromTrailingEntry ==
    (ev.kind = "startup" /\ HasTrailingEntry(logFile))
        => lastLoggedLevel = TrailingEntry(logFile).level

\* C11 witness: the start-up has just migrated the legacy array of levels 1
\* and MaxLevel and the watermark is MaxLevel.
C11_Witness ==
    /\ ev.kind = "startup"
    /\ legacyFile = File(<<Pretty(JArr(LegacyEntries(<<1, MaxLevel>>)))>>)
    /\ logFile = File(ToJsonl(LegacyEntries(<<1, MaxLevel>>)))
    /\ lastLoggedLevel = Some(MaxLevel)

\* C12: a start-up over a log that is empty or whose trailing line is not
\* JSON completes and leaves the watermark at -1; and with the watermark at
\* -1, an OFF block of level >= 0 is appended to the log (when the file system
\* accepts the append) and becomes the watermark.
C12_CorruptTrailingLine ==
    [][/\ (IsStartupStep /\ EmptyOrCorrupt(logFile'))
            => /\ phase' = "connecting"
               /\ lastLoggedLevel' = Some(InitialWatermark)
       /\ (/\ IsMessageStep
           /\ lastLoggedLevel = Some(InitialWatermark)
           /\ OneFrame(ev')
           /\ ev'.outs[1].res = "block" /\ ev'.outs[1].vote = "OFF"
           /\ ev'.outs[1].io
           /\ GreaterThan(ev'.outs[1].level, Some(-1)))
            => /\ logFile' = File(logFile.content \o
                                  Line(Entry(ev'.outs[1].level, "OFF",
                                             latestBlock'.snap.baker,
                                             latestBlock'.snap.ema)))
               /\ lastLoggedLevel' = ev'.outs[1].level]_vars

\* C12 witness: after a start-up over a log ending in a partial line, the
\* OFF block of level 0 was appended.
C12_Witness ==
    /\ ev.kind = "message"
    /\ nMsgs = 1
    /\ ev.outs[1].res = "block" /\ ev.outs[1].appended
    /\ ev.outs[1].level = Some(0)
    /\ lastLoggedLevel = Some(0)
    /\ \E l \in Levels :
         logFile.content =
            Line(LogEntry(l)) \o <<Junk>> \o
            Line(Entry(Some(0), "OFF", Some(JStr("tz1X")), JNum(EmaHigh)))

(***************************************************************************)
(* Specification SpecSession: one session fed with chunks of several       *)
(* frames: handshake acknowledgments, keep-alives, malformed frames, blocks *)
(***************************************************************************)
EmptyObject == Msg(None, None, None, 0)                  \* {}
PingMsg == Msg(Some(JNum(PingType)), None, None, 0)      \* {type: 6}
OffBlock(level) ==
    Block(Some(level), Some(JNum(EmaHigh)), None, Some(JBool(FALSE)), Some(TheProposer))

\* The frames of a chunk: each a text without delimiter.
SessionFrames(level) ==
    {Compact(EmptyObject), Compact(PingMsg), Junk, Compact(BlockMsg(<<OffBlock(level)>>))}

\* Sequences of 1..n elements of S.
RECURSIVE SeqsUpTo(_, _)
SeqsUpTo(S, n) ==
    IF n = 0 THEN {}
    ELSE LET shorter == SeqsUpTo(S, n - 1)
         IN  { <<x>> : x \in S } \cup
             UNION { { Append(q, x) : x \in S } : q \in shorter }

\* frame TERMINATOR frame TERMINATOR ...
RECURSIVE ChunkOf(_)
ChunkOf(frames) ==
    IF frames = <<>> THEN <<>>
    ELSE <<Head(frames), Term>> \o ChunkOf(Tail(frames))

IsBlockFrame(frag) ==
    /\ Len(frag) = 1 /\ ParseText(frag[1]).ok
    /\ IsBlockUpdate(ParseText(frag[1]).v)

\* The file system may refuse an append while a block frame is handled.
ChunkIos(chunk) ==
    LET frags == Split(chunk, Term)
    IN  { ios \in [1..Len(frags) -> BOOLEAN] :
            \A i \in 1..Len(frags) : ~ios[i] => IsBlockFrame(frags[i]) }

FeedSession ==
    /\ phase = "open"
    /\ nMsgs < MaxRunMsgs
    /\ \E frames \in SeqsUpTo(SessionFrames(nMsgs + 1), MaxFrames) :
         \E chunk \in {ChunkOf(frames)} :
            OnMessage(chunk, SameIo(chunk, TRUE))

NextSession ==
    \/ Startup
    \/ OnOpen
    \/ OnClose
    \/ FeedSession

InitSession == InitNoLegacy /\ mode = "OFF_ONLY"

SpecSession == InitSession /\ [][NextSession]_vars

(***************************************************************************)
(* Specification SpecAppends: a session whose appends may fail             *)
(***************************************************************************)
\* The frames of a chunk: a text that is no JSON, an OFF block.
AppendFrames(level) == {Junk, Compact(BlockMsg(<<OffBlock(level)>>))}

FeedAppends ==
    /\ phase = "open"
    /\ nMsgs < MaxRunMsgs
    /\ \E frames \in SeqsUpTo(AppendFrames(nMsgs + 1), MaxFrames) :
         \E chunk \in {ChunkOf(frames)} :
            \E ios \in ChunkIos(chunk) :
                OnMessage(chunk, ios)

NextAppends ==
    \/ Startup
    \/ OnOpen
    \/ OnClose
    \/ FeedAppends

SpecAppends == InitSession /\ [][NextAppends]_vars

(***************************************************************************)
(* Properties of the session                                               *)
(***************************************************************************)
\* The texts on the wire, written out.
HandshakeText == <<Compact([protocol |-> "json", version |-> 1]), Term>>
SubscribeText ==
    <<Compact([type |-> 1, target |-> "SubscribeToBlocks", arguments |-> <<>>]), Term>>

\* C13: over the inbound frames of one session the subscription invocation
\* is sent at most once (an empty object received after the first one causes
\* no further send).
C13_SubscribeAtMostOnce ==
    Count(sent, SubscribeText) <= 1

\* C14: transport-open sends the handshake request followed by one delimiter
\* as the first outbound message, it is sent once, and no subscription
\* invocation precedes it.
C14_HandshakeFirst ==
    [][/\ (phase = "connecting" /\ phase' = "open")
            => (sent = <<>> /\ sent' = <<HandshakeText>>)
       /\ Count(sent', HandshakeText) <= 1
       /\ \A i \in 1..Len(sent') :
            sent'[i] = SubscribeText => (i > 1 /\ sent'[1] = HandshakeText)]_vars

\* C14 witness: the handshake request, then a subscription invocation.
C14_Witness ==
    /\ phase = "open"
    /\ sent = <<HandshakeText, SubscribeText>>

\* A fragment that fails JSON parsing / that is a keep-alive.
Malformed(frag) == frag # <<>> /\ ~ParseLine(frag).ok
IsPing(frag) ==
    /\ ParseLine(frag).ok
    /\ ParseLine(frag).v.t = "msg"
    /\ ParseLine(frag).v.type = Some(JNum(6))

\* The fragments of the chunk of the step, each with the state of the file
\* system while it is handled and with its outcome.
StepFrames ==
    LET frags == Split(ev'.chunk, Term)
    IN  [i \in 1..Len(frags) |->
            [frag |-> frags[i], io |-> ev'.ios[i], out |-> ev'.outs[i]]]

\* The handler run from the state before the step on the given fragments.
RunOn(frames) ==
    HandleAll(HandlerState, [i \in 1..Len(frames) |-> frames[i].frag],
              [i \in 1..Len(frames) |-> frames[i].io], 1)

\* The step left the program state and the outcomes of the frames as the run
\* st does.
SameAsRun(st, frames) ==
    /\ latestBlock' = st.latestBlock
    /\ blockHistory' = st.blockHistory
    /\ logFile' = st.logFile
    /\ lastLoggedLevel' = st.lastLoggedLevel
    /\ sent' = st.sent
    /\ st.outs = [i \in 1..Len(frames) |-> frames[i].out]

\* C15: a frame that fails JSON parsing is dropped, the session stays open,
\* and the state and the outcome of every other frame of the chunk are those
\* of the chunk without the malformed frames (so a chunk of malformed frames
\* changes nothing, and later chunks start from the same state).
C15_MalformedFrameDropped ==
    [][IsMessageStep =>
        /\ phase' = "open" /\ isConnected' = isConnected
        /\ Len(ev'.outs) = Len(Split(ev'.chunk, Term))
        /\ \A frames \in {StepFrames} :
             /\ \A i \in 1..Len(frames) :
                  Malformed(frames[i].frag) => frames[i].out.res = "threw"
             /\ \A kept \in {SelectSeq(frames, LAMBDA f : ~Malformed(f.frag))} :
                  Len(kept) < Len(frames)
                      => \A st \in {RunOn(kept)} : SameAsRun(st, kept)]_vars

\* C15 witness: a malformed frame, then in the same chunk a block that was
\* appended to the log.
C15_Witness ==
    /\ ev.kind = "message"
    /\ Len(ev.outs) = 3
    /\ ev.chunk[1] = Junk
    /\ ev.outs[1].res = "threw"
    /\ ev.outs[2].res = "block" /\ ev.outs[2].appended
    /\ latestBlock.t = "snapshot"

\* C16: an I/O error of the log append changes nothing but the log and the
\* watermark: the current snapshot, the history, what is sent and what each
\* frame of the chunk does, rendering included, are as with a file system that
\* accepts every append, and the block whose append failed was rendered.
C16_AppendErrorSuppressed ==
    [][IsMessageStep =>
        /\ phase' = "open"
        /\ Len(ev'.outs) = Len(Split(ev'.chunk, Term))
        /\ \A frames \in {StepFrames} :
           (\E i \in 1..Len(frames) : ~frames[i].io) =>
           \A ok \in {RunOn([i \in 1..Len(frames) |-> [frames[i] EXCEPT !.io = TRUE]])} :
               /\ latestBlock' = ok.latestBlock
               /\ blockHistory' = ok.blockHistory
               /\ sent' = ok.sent
               /\ \A i \in 1..Len(frames) :
                    /\ frames[i].out.res = ok.outs[i].res
                    /\ frames[i].out.pushed = ok.outs[i].pushed
                    /\ frames[i].out.rendered = ok.outs[i].rendered
                    /\ (frames[i].out.res = "block" /\ ~frames[i].io)
                         => (frames[i].out.rendered /\ ~frames[i].out.appended)]_vars

\* C16 witness: the append of an OFF block failed; the block is in the
\* history and is the current snapshot, and the next frame of the chunk, the
\* same block again, was appended.
C16_Witness ==
    /\ ev.kind = "message"
    /\ Len(ev.outs) = 3
    /\ ev.outs[1].res = "block" /\ ev.outs[1].vote = "OFF"
    /\ ~ev.outs[1].io /\ ~ev.outs[1].appended
    /\ ev.outs[1].pushed /\ ev.outs[1].rendered
    /\ ev.outs[2].res = "block" /\ ev.outs[2].appended
    /\ Len(blockHistory) >= 2
    /\ latestBlock.t = "snapshot"

\* C18: a keep-alive frame has no effect: the connection status is unchanged,
\* the state and the outcome of every other frame of the chunk are those of
\* the chunk without the keep-alives (a chunk of keep-alives changes nothing
\* and sends nothing), and no keep-alive renders the dashboard.
C18_KeepAliveNoEffect ==
    [][IsMessageStep =>
        /\ isConnected' = isConnected
        /\ Len(ev'.outs) = Len(Split(ev'.chunk, Term))
        /\ \A frames \in {StepFrames} :
             /\ \A i \in 1..Len(frames) :
                  IsPing(frames[i].frag) => ~frames[i].out.rendered
             /\ \A kept \in {SelectSeq(frames, LAMBDA f : ~IsPing(f.frag))} :
                  Len(kept) < Len(frames)
                      => \A st \in {RunOn(kept)} : SameAsRun(st, kept)]_vars

\* C18 witness: a chunk of one keep-alive was handled while a snapshot was
\* current.
C18_Witness ==
    /\ ev.kind = "message"
    /\ ev.chunk = <<Compact(PingMsg), Term>>
    /\ ev.outs[1].res = "ping"
    /\ latestBlock.t = "snapshot" /\ blockHistory # <<>>
    /\ Len(sent) = 1

\* C19: transport-close leaves the session closed and the status
\* disconnected; from then on the session stays closed and disconnected and
\* nothing is sent; the status is connected exactly while the session is open.
C19_ClosedTerminal ==
    [][/\ ev'.kind = "close" => (phase' = "closed" /\ ~isConnected')
       /\ phase = "closed" => (phase' = "closed" /\ ~isConnected' /\ sent' = sent)
       /\ isConnected' <=> phase' = "open"]_vars

\* C19 witness: the session was closed after the handshake and a
\* subscription.
C19_Witness ==
    /\ phase = "closed"
    /\ ~isConnected
    /\ Len(sent) = 2

(***************************************************************************)
(* Specification SpecEnvelope: envelopes of several blocks, blocks with    *)
(* fields missing, then transport-close                                    *)
(***************************************************************************)
\* The blocks of an envelope at one level: OFF, ON, one without lbToggleEma,
\* one without level.
EnvelopeBlocks(level) ==
    { OffBlock(level),
      Block(Some(level), Some(JNum(EmaHigh)), None, Some(JBool(TRUE)), Some(TheProposer)),
      Block(Some(level), None, None, Some(JBool(FALSE)), Some(TheProposer)),
      Block(None, Some(JNum(EmaHigh)), None, Some(JBool(FALSE)), Some(TheProposer)) }

FeedEnvelope ==
    /\ phase = "open"
    /\ nMsgs < MaxRunMsgs
    /\ \E blocks \in SeqsUpTo(EnvelopeBlocks(nMsgs + 1), MaxData), io \in BOOLEAN :
         OnMessage(FrameChunk(BlockMsg(blocks)),
                   SameIo(FrameChunk(BlockMsg(blocks)), io))

NextEnvelope ==
    \/ Startup
    \/ OnOpen
    \/ OnClose
    \/ FeedEnvelope

SpecEnvelope == InitSession /\ [][NextEnvelope]_vars

\* The data of the block-update message in a fragment, and the fragment with
\* the data cut down to its first element.
DataBlocks(frag) ==
    Get(DataOf(Get(FirstOf(Get(ArgumentsOf(ParseLine(frag).v)))))).items
FirstOnly(frag) == <<Compact(BlockMsg(<<DataBlocks(frag)[1]>>))>>

\* C17: after a block-update message whose data holds several blocks, the
\* current snapshot, the history, the log (and the watermark, what is sent and
\* the outcome of the frame) are as if data had held only its first element.
C17_OnlyFirstBlock ==
    [][IsMessageStep =>
        /\ Len(ev'.outs) = Len(Split(ev'.chunk, Term))
        /\ \A frames \in {StepFrames} :
             \A cut \in {[i \in 1..Len(frames) |->
                            IF IsBlockFrame(frames[i].frag)
                            THEN [frames[i] EXCEPT !.frag = FirstOnly(@)]
                            ELSE frames[i]]} :
                \A st \in {RunOn(cut)} : SameAsRun(st, cut)]_vars

\* C17 witness: the first block of the data has no lbToggleEma, the second
\* is an OFF block above the watermark; nothing was logged and no snapshot is
\* current.
C17_Witness ==
    /\ ev.kind = "message"
    /\ nMsgs = 1
    /\ Len(DataBlocks(Split(ev.chunk, Term)[1])) = 2
    /\ DataBlocks(Split(ev.chunk, Term)[1])[2] = OffBlock(1)
    /\ ev.outs[1].res = "noema"
    /\ latestBlock = NoSnapshot /\ ~logFile.exists

\* C20: no exception leaves the open, message or close handler.  (onmessage
\* catches everything thrown while a frame is handled; onopen and onclose end
\* with a call of renderDashboard outside any try.)
C20_NoExceptionEscapes ==
    ev.kind \in {"open", "close"} => ~ev.outs[1].renderThrew

(***************************************************************************)
(* Further properties of the log and the watermark                         *)
(***************************************************************************)
IsPrefix(p, q) == Len(p) <= Len(q) /\ SubSeq(q, 1, Len(p)) = p

\* C21: once a start-up has ended, every step leaves the log with its
\* earlier content as a prefix: message processing only appends, and a later
\* start-up leaves an existing log as it is.
C21_LogAppendOnly ==
    [][(phase # "off" \/ logFile.exists)
        => /\ IsPrefix(logFile.content, logFile'.content)
           /\ logFile.exists => logFile'.exists]_vars

\* C21 witness: an entry was appended behind the two entries of a migrated
\* legacy log.
C21_Witness ==
    /\ ev.kind = "message"
    /\ ev.outs[1].res = "block" /\ ev.outs[1].appended
    /\ Len(EntriesOf(logFile)) = 3
    /\ IsPrefix(MigratedLog(legacyFile, NoFile).content, logFile.content)

(***************************************************************************)
(* Specification SpecEma: blocks over the range of the EMA                 *)
(***************************************************************************)
\* An ON block (neither tracked nor logged under OFF_ONLY) with the EMA.
EmaBlock(level, ema) ==
    Block(Some(level), Some(ema), None, Some(JBool(TRUE)), Some(TheProposer))

FeedEma ==
    /\ phase = "open"
    /\ nMsgs < MaxRunMsgs
    /\ \E ema \in EmaInputs :
         \E chunk \in {FrameChunk(BlockMsg(<<EmaBlock(nMsgs + 1, ema)>>))} :
            OnMessage(chunk, SameIo(chunk, TRUE))

NextEma ==
    \/ Startup
    \/ OnOpen
    \/ FeedEma

SpecEma == InitSession /\ [][NextEma]_vars

\* f is exactly the integer c.
FIs(f, c) == FFloor(f) = c /\ ~FHasFraction(f)

\* C22: for every EMA value e carried by a block the snapshot's progress is
\* (e / THRESHOLD) * 100, its pct is (e / MAX_EMA) * 100, progress is exactly
\* twice pct, and progress >= 100 iff e >= 1_000_000_000.
C22_ProgressTwicePct ==
    latestBlock.t = "snapshot" =>
        \A snap \in {latestBlock.snap} :
            /\ snap.ema.t = "number"
            /\ snap.progress = FMul(FDiv(snap.ema.n, 1000000000), 100)
            /\ snap.pct = FMul(FDiv(snap.ema.n, 2000000000), 100)
            /\ snap.progress = FMul(snap.pct, 2)
            /\ FGe(snap.progress, 100) <=> snap.ema.n >= 1000000000

\* C22 witness: a block with e = 1_000_000_000: progress 100, pct 50.
C22_Witness ==
    /\ latestBlock.t = "snapshot"
    /\ latestBlock.snap.ema = JNum(1000000000)
    /\ FIs(latestBlock.snap.progress, 100)
    /\ FIs(latestBlock.snap.pct, 50)

\* The banner of the dashboard drawn for the block of a one-frame chunk.
BannerShown(e) == e.outs[1].shown[1].banner
DrewBlock(e) ==
    /\ OneFrame(e)
    /\ e.outs[1].res = "block" /\ e.outs[1].rendered /\ ~e.outs[1].renderThrew

\* C23: the status banner drawn for the current snapshot is critical iff
\* progress >= 100, warning iff 80 < progress < 100, nominal otherwise
\* (progress exactly 80 is nominal, exactly 100 is critical).
C23_StatusBanner ==
    DrewBlock(ev) =>
        \A p \in {latestBlock.snap.progress} :
            /\ BannerShown(ev) = "SUBSIDY DISABLED" <=> FGe(p, 100)
            /\ BannerShown(ev) = "CLOSE TO DEACTIVATION" <=> (FGt(p, 80) /\ ~FGe(p, 100))
            /\ BannerShown(ev) = "SUBSIDIES ACTIVE" <=> ~FGt(p, 80)
            /\ FIs(p, 80) => BannerShown(ev) = "SUBSIDIES ACTIVE"
            /\ FIs(p, 100) => BannerShown(ev) = "SUBSIDY DISABLED"

\* C23 witness: progress exactly 80 (e = 800_000_000) drawn as nominal.
C23_Witness ==
    /\ DrewBlock(ev)
    /\ latestBlock.snap.ema = JNum(800000000)
    /\ FIs(latestBlock.snap.progress, 80)
    /\ BannerShown(ev) = "SUBSIDIES ACTIVE"

(***************************************************************************)
(* Properties of the append rule (specification SpecLogs)                  *)
(***************************************************************************)
\* The step handled a chunk of one frame carrying an OFF block.
OffBlockStep ==
    /\ IsMessageStep /\ OneFrame(ev')
    /\ ev'.outs[1].res = "block" /\ ev'.outs[1].vote = "OFF"

\* a <= b for two levels that are both numbers.
AtMost(a, b) == IsSome(a) /\ IsSome(b) /\ Get(a) <= Get(b)

\* C24: an OFF block whose level is less than or equal to the watermark
\* appends no entry and leaves the watermark alone, also when its level was
\* never logged; it becomes the current snapshot and enters the history.
C24_StaleOffBlockNotLogged ==
    [][(OffBlockStep /\ AtMost(ev'.outs[1].level, lastLoggedLevel))
        => \A snap \in {Snapshot(Get(ev'.outs[1].block))} :
             /\ ~ev'.outs[1].appended
             /\ UNCHANGED <<logFile, lastLoggedLevel>>
             /\ latestBlock' = Latest(snap)
             /\ ev'.outs[1].pushed
             /\ blockHistory' = PushHistory(blockHistory, snap)]_vars

\* C24 witness: an OFF block below the watermark whose level is in no entry
\* of the log, handled while appends succeed.
C24_Witness ==
    /\ OneFrame(ev) /\ ev.outs[1].res = "block" /\ ev.outs[1].vote = "OFF"
    /\ ev.outs[1].io /\ ~ev.outs[1].appended
    /\ IsSome(lastLoggedLevel) /\ Get(ev.outs[1].level) < Get(lastLoggedLevel)
    /\ \A i \in 1..Len(LevelsIn(logFile)) : LevelsIn(logFile)[i] # Get(ev.outs[1].level)
    /\ latestBlock.snap.level = ev.outs[1].level
    /\ blockHistory[Len(blockHistory)].level = ev.outs[1].level

\* C28: within one run each append adds one entry whose level is above the
\* watermark and sets the watermark to that level, and the watermark never
\* decreases (so the levels appended in the run are strictly increasing).
C28_AppendsIncreasing ==
    [][IsMessageStep
        => /\ \/ lastLoggedLevel' = lastLoggedLevel
              \/ /\ IsSome(lastLoggedLevel) /\ IsSome(lastLoggedLevel')
                 /\ Get(lastLoggedLevel') > Get(lastLoggedLevel)
           /\ OneFrame(ev') /\ ev'.outs[1].appended
                => \A snap \in {Snapshot(Get(ev'.outs[1].block))} :
                     /\ logFile'.content = logFile.content \o
                            Line(Entry(snap.level, "OFF", snap.baker, snap.ema))
                     /\ Get(snap.level) > Get(lastLoggedLevel)
                     /\ lastLoggedLevel' = snap.level
           /\ logFile' # logFile => (OneFrame(ev') /\ ev'.outs[1].appended)]_vars

\* C28 witness: two appends in one run, the second above the first.
C28_Witness ==
    /\ OneFrame(ev) /\ ev.outs[1].appended
    /\ Len(tracked) = 2
    /\ Get(tracked[1].level) < Get(tracked[2].level)
    /\ \E n \in {Len(LevelsIn(logFile))} :
         /\ n >= 2
         /\ LevelsIn(logFile)[n - 1] = Get(tracked[1].level)
         /\ LevelsIn(logFile)[n] = Get(tracked[2].level)
    /\ lastLoggedLevel = tracked[2].level

\* C29: an append that fails with an I/O error leaves the watermark (and
\* the log) as they were, the watermark changes only together with an
\* append, and an OFF block above the watermark is logged when the append
\* succeeds, also after an earlier failure at the same level.
C29_FailedAppendKeepsWatermark ==
    [][/\ (OffBlockStep /\ ~ev'.outs[1].io) => UNCHANGED <<lastLoggedLevel, logFile>>
       /\ (IsMessageStep /\ lastLoggedLevel' # lastLoggedLevel)
            => (logFile' # logFile /\ \E i \in 1..Len(ev'.outs) : ev'.outs[i].appended)
       /\ (OffBlockStep /\ ev'.outs[1].io
             /\ GreaterThan(ev'.outs[1].level, lastLoggedLevel))
            => (ev'.outs[1].appended /\ lastLoggedLevel' = ev'.outs[1].level)]_vars

\* C29 witness: the two messages of the run carried the same level and the
\* second was logged (so the first was above the watermark and its append
\* failed).
C29_Witness ==
    /\ OneFrame(ev) /\ ev.outs[1].appended
    /\ nMsgs = 2 /\ Len(blockHistory) = 2 /\ blockHistory[1].level = blockHistory[2].level
    /\ lastLoggedLevel = blockHistory[2].level
    /\ Count(LevelsIn(logFile), Get(blockHistory[2].level)) = 1

C30_LoggingIgnoresMode ==
    [][(IsMessageStep /\ OneFrame(ev') /\ ev'.outs[1].res = "block")
        => \A out \in {ev'.outs[1]} :
             /\ out.appended <=> /\ out.vote = "OFF"
                                 /\ GreaterThan(out.level, lastLoggedLevel)
                                 /\ out.io
             /\ out.appended <=> logFile' # logFile
             /\ out.appended
                  => /\ out.pushed
                     /\ blockHistory' =
                            PushHistory(blockHistory, Snapshot(Get(out.block)))
                     /\ EntriesOf(logFile')[Len(EntriesOf(logFile'))].level =
                            blockHistory'[Len(blockHistory')].level]_vars

\* C30 witness: under ON_OFF, after an ON block, an OFF block is logged and
\* is the newest snapshot of the history.
C30_Witness ==
    /\ mode = "ON_OFF"
    /\ OneFrame(ev) /\ ev.outs[1].appended
    /\ Len(blockHistory) = 2
    /\ blockHistory[1].vote = "ON" /\ blockHistory[2].vote = "OFF"
    /\ blockHistory[2].level = ev.outs[1].level
    /\ lastLoggedLevel = ev.outs[1].level

(***************************************************************************)
(* Properties of renderDashboard (specification SpecBlocks)                *)
(***************************************************************************)
\* The dashboard a handler's call of renderDashboard drew.
Drawn(out) == out.shown[1]

\* C26: renderDashboard changes no state.  The call that ends onopen and
\* onclose leaves current snapshot, history (content and order), watermark
\* and log as they were and shows the connection status the handler has just
\* set; the call that ends the handling of a block leaves the history as the
\* push left it; the rows shown are the history newest first.
C26_RenderChangesNothing ==
    [][/\ ev'.kind \in {"open", "close"}
            => /\ UNCHANGED <<latestBlock, blockHistory, lastLoggedLevel, logFile>>
               /\ ev'.outs[1].rendered
               /\ Drawn(ev'.outs[1]).connected = isConnected'
               /\ ~ev'.outs[1].renderThrew /\ latestBlock.t # "null"
                    => Drawn(ev'.outs[1]).rows = Reverse(blockHistory')
       /\ (IsMessageStep /\ OneFrame(ev') /\ ev'.outs[1].rendered)
            => \A out \in {ev'.outs[1]} :
                 /\ isConnected' = isConnected
                 /\ Drawn(out).connected = isConnected
                 /\ latestBlock' = Latest(Snapshot(Get(out.block)))
                 /\ blockHistory' = IF out.pushed
                                    THEN PushHistory(blockHistory, Snapshot(Get(out.block)))
                                    ELSE blockHistory
                 /\ ~out.renderThrew => Drawn(out).rows = Reverse(blockHistory')]_vars

\* C26 witness: onclose drew a history of two snapshots newest first and the
\* history is still oldest first.
C26_Witness ==
    /\ ev.kind = "close" /\ ~ev.outs[1].renderThrew
    /\ Len(blockHistory) = 2
    /\ Get(blockHistory[1].level) < Get(blockHistory[2].level)
    /\ Drawn(ev.outs[1]).rows = <<blockHistory[2], blockHistory[1]>>
    /\ ~Drawn(ev.outs[1]).connected /\ ~isConnected

(***************************************************************************)
(* Specification SpecChunks: chunks of several frames, ON and OFF blocks   *)
(***************************************************************************)
OnBlock(level) ==
    Block(Some(level), Some(JNum(EmaHigh)), None, Some(JBool(TRUE)), Some(TheProposer))

\* The frames of a chunk: an OFF block, an ON block, or nothing between two
\* delimiters.
ChunkFrames(level) ==
    {<<>>, <<Compact(BlockMsg(<<OffBlock(level)>>))>>,
           <<Compact(BlockMsg(<<OnBlock(level)>>))>>}

\* frame TERMINATOR frame TERMINATOR ...
RECURSIVE Delimited(_)
Delimited(frames) ==
    IF frames = <<>> THEN <<>>
    ELSE Head(frames) \o <<Term>> \o Delimited(Tail(frames))

FeedChunks ==
    /\ phase = "open"
    /\ nMsgs < MaxRunMsgs
    /\ \E frames \in SeqsUpTo(ChunkFrames(nMsgs + 1), MaxFrames) :
         \E chunk \in {Delimited(frames)} :
            OnMessage(chunk, SameIo(chunk, TRUE))

NextChunks ==
    \/ Startup
    \/ OnOpen
    \/ FeedChunks

InitChunks == InitNoLegacy /\ mode \in {"ON_OFF", "OFF_ONLY"}

SpecChunks == InitChunks /\ [][NextChunks]_vars

\* The snapshots of the block frames among the fragments, in their order.
SnapshotsOf(frags) ==
    LET filled == SelectSeq(frags, LAMBDA f : f # <<>>)
    IN  [i \in 1..Len(filled) |->
            Snapshot(Get(FirstBlock(ParseLine(filled[i]).v)))]

\* C25: a chunk is split on the delimiter, empty fragments are skipped and
\* the frames are handled in their order: after the chunk the current
\* snapshot is that of the last frame of the chunk that yielded one, and the
\* history is the one before the chunk followed by the tracked snapshots in
\* frame order (the newest HISTORY_LIMIT of them).
C25_FramesInOrder ==
    [][IsMessageStep =>
        \A frags \in {Split(ev'.chunk, Term)} :
            /\ Len(ev'.outs) = Len(frags)
            /\ \A i \in 1..Len(frags) :
                 ev'.outs[i].res = IF frags[i] = <<>> THEN "empty" ELSE "block"
            /\ \A snaps \in {SnapshotsOf(frags)} :
                 /\ latestBlock' = IF snaps = <<>> THEN latestBlock
                                   ELSE Latest(snaps[Len(snaps)])
                 /\ blockHistory' =
                        LastN(blockHistory \o
                                  SelectSeq(snaps, LAMBDA s : ShouldTrack(s.vote, mode)),
                              HISTORY_LIMIT)]_vars

\* C25 witness: a chunk of an ON frame and an OFF frame under ON_OFF: the
\* history holds the ON snapshot, then the OFF one, which is the current one;
\* the fragment after the last delimiter was skipped.
C25_Witness ==
    /\ mode = "ON_OFF" /\ ev.kind = "message" /\ nMsgs = 1
    /\ Len(ev.outs) = 3 /\ ev.outs[3].res = "empty"
    /\ Len(blockHistory) = 2
    /\ blockHistory[1].vote = "ON" /\ blockHistory[2].vote = "OFF"
    /\ latestBlock = Latest(blockHistory[2])

(***************************************************************************)
(* Swallowed exceptions (specification SpecEnvelope)                       *)
(***************************************************************************)
\* The handling of the frame threw into the catch of line 239: before the
\* snapshot was built, or in renderDashboard at the end.
Swallowed(out) == out.res = "threw" \/ out.renderThrew

\* C31: a frame whose processing raises an exception that is swallowed has
\* no effect: current snapshot, history, log and watermark are as before the
\* frame.
C31_SwallowedFrameNoEffect ==
    [][(IsMessageStep /\ OneFrame(ev') /\ Swallowed(ev'.outs[1]))
        => UNCHANGED <<latestBlock, blockHistory, logFile, lastLoggedLevel>>]_vars

(***************************************************************************)
(* Specification SpecValues: frames holding any JSON value                 *)
(***************************************************************************)
\* JSON values a frame may hold: the empty object, a non-empty object, an
\* empty and a non-empty array, numbers, an empty and a non-empty string,
\* booleans, null.
FrameValues ==
    {EmptyObject, PingMsg, JArr(<<>>), JArr(<<JNum(1)>>), JNum(0), JNum(5),
     JStr(""), JStr("x"), JBool(FALSE), JBool(TRUE), Null}

FeedValues ==
    /\ phase = "open"
    /\ nMsgs < MaxRunMsgs
    /\ \E v \in FrameValues :
         \E chunk \in {FrameChunk(v)} :
            OnMessage(chunk, SameIo(chunk, TRUE))

NextValues ==
    \/ Startup
    \/ OnOpen
    \/ OnClose
    \/ FeedValues

SpecValues == InitNoLegacy /\ [][NextValues]_vars

\* C32: a subscription invocation (any message at all) is sent only in
\* response to a frame that is the empty JSON object.
C32_SubscribeOnlyOnEmptyObject ==
    [][(IsMessageStep /\ sent' # sent) => ev'.chunk = FrameChunk(EmptyObject)]_vars

ArrayLogger_NoMembership(file, snap) ==
    IF snap.vote # "OFF" THEN file
    ELSE LET r == IF file.exists /\ Trim(file.content) # <<>>
                  THEN ParseContent(file.content)
                  ELSE Parsed(JArr(<<>>))
         IN  IF ~r.ok \/ r.v.t # "array" THEN file
             ELSE File(<<Pretty(JArr(Append(r.v.items,
                        Entry(snap.level, snap.vote, snap.baker, snap.ema))))>>)

\* The earlier logger for one block: the whole array is read from the file
\* (nothing when the file is missing or blank), the entry is pushed unless
\* some element has the level, and the array is written back.  An
\* exception (the content is no JSON, or no array) leaves the file alone.
ArrayLogger(file, snap) ==
    IF snap.vote # "OFF" THEN file
    ELSE LET r == IF file.exists /\ Trim(file.content) # <<>>
                  THEN ParseContent(file.content)
                  ELSE Parsed(JArr(<<>>))
         IN  IF ~r.ok \/ r.v.t # "array" THEN file
             ELSE IF \E i \in 1..Len(r.v.items) : LevelOf(r.v.items[i]) = snap.level
             THEN file
             ELSE File(<<Pretty(JArr(Append(r.v.items,
                        Entry(snap.level, snap.vote, snap.baker, snap.ema))))>>)

\* The file of the earlier logger after the snapshots of a feed, in order.
RECURSIVE ArrayLogAfter(_, _)
ArrayLogAfter(file, snaps) ==
    IF snaps = <<>> THEN file
    ELSE ArrayLogAfter(ArrayLogger(file, Head(snaps)), Tail(snaps))

\* The levels of the entries of the array file, in array order.
ArrayLevels(file) ==
    IF ~file.exists THEN <<>>
    ELSE LET items == ParseContent(file.content).v.items
         IN  [i \in 1..Len(items) |-> Get(LevelOf(items[i]))]

\* The feed: ON and OFF blocks of any level in any order, every append
\* succeeds, the log starts empty.
FeedBlocksAnyOrder ==
    /\ phase = "open"
    /\ nMsgs < MaxRunMsgs
    /\ \E l \in 0..MaxLevel, b \in BOOLEAN :
         \E chunk \in {FrameChunk(BlockMsg(<<Block(Some(l), Some(JNum(EmaHigh)), None,
                                                  Some(JBool(b)), Some(TheProposer))>>))} :
            OnMessage(chunk, SameIo(chunk, TRUE))

NextFeed ==
    \/ Startup
    \/ OnOpen
    \/ FeedBlocksAnyOrder

SpecFeed == InitNoLegacy /\ [][NextFeed]_vars

\* The OFF snapshots of the run so far, and their levels.
OffFeed == SelectSeq(tracked, LAMBDA s : s.vote = "OFF")
FeedLevels == [i \in 1..Len(OffFeed) |-> Get(OffFeed[i].level)]
NonDecreasing(q) == \A i \in 1..Len(q) - 1 : q[i] <= q[i + 1]

\* C33: from an empty log and without I/O errors, on every feed of OFF
\* blocks with non-decreasing levels the watermark logger and the earlier
\* array logger record the same sequence of levels (so they differ only
\* when a lower level follows a higher one).
C33_LoggersAgree ==
    NonDecreasing(FeedLevels)
        => LevelsIn(logFile) = ArrayLevels(ArrayLogAfter(NoFile, OffFeed))

\* C33 witness: two OFF blocks of rising levels, recorded by both loggers.
C33_Witness ==
    /\ Len(FeedLevels) = 2 /\ FeedLevels[1] < FeedLevels[2]
    /\ LevelsIn(logFile) = FeedLevels
    /\ ArrayLevels(ArrayLogAfter(NoFile, OffFeed)) = FeedLevels

====
